---- MODULE Spec2Model ----
(***************************************************************************)
(* Model of the vanity address generator (src/tsup.config.ts, lines        *)
(* 16-213): a main thread (the Coordinator) that parses the command line,  *)
(* prints an estimate, spawns worker threads and handles their messages,   *)
(* and worker threads that run generateKey.                                *)
(*                                                                         *)
(* Strings that the program inspects character by character (addresses,    *)
(* prefix, suffix, hex renderings) are sequences of one-character strings. *)
(* The SHA3-256 digest and the Ed25519 key derivation are library code;    *)
(* they are replaced by fixed deterministic stand-ins with a one-byte      *)
(* output, so that addresses are two hex characters long.                  *)
(*                                                                         *)
(* Specifications: Spec is the program; LiveSpec adds fairness over valid  *)
(* configurations; SecondSpec is the second copy of the program in the     *)
(* same file (lines 214-337); MatchSpec and DeriveSpec apply the match     *)
(* test and createMultisigAccountAddress on their own to chosen inputs.    *)
(* benchRuns, posted and the seq field of messages are history variables:  *)
(* they record what the program did and are read by no action.             *)
(***************************************************************************)
EXTENDS Integers, Sequences, FiniteSets, TLC

(***************************************************************************)
(* Bounds of the model.                                                    *)
(***************************************************************************)
\* a worker starts at most MaxGen loop iterations
MaxGen == 3
\* at most MaxChan messages of one worker are in flight
MaxChan == 2
\* the wall clock is observed up to MaxTime milliseconds
MaxTime == 2000
\* longest string given to the match test on its own
MaxStrLen == 2
\* longest creator address given to createMultisigAccountAddress on its own
MaxCreatorLen == 3

(***************************************************************************)
(* Program constants.                                                      *)
(***************************************************************************)
\* `localGenCount % 1000 === 0` and `count: 1000`, scaled down to keep the
\* worker counters small
ProgressBatch == 2
\* `currentTime - lastUpdateTime >= 1000`
UpdateIntervalMs == 1000
\* benchmarkPerformance(iterations: number = 1000)
BenchIterations == 1000
\* const SEQUENCE_NUMBER_MULTISIG = 0n
SEQUENCE_NUMBER_MULTISIG == 0

(***************************************************************************)
(* Inputs.                                                                 *)
(***************************************************************************)
\* an option that was not given on the command line is undefined
Undefined == [given |-> FALSE, val |-> <<>>]
Given(s) == [given |-> TRUE, val |-> s]

\* values of --prefix: absent, lowercase hex, not lowercase hex
PrefixChoices == {Undefined, Given(<<"0">>), Given(<<"G">>)}
\* values of --suffix: empty, lowercase hex
SuffixChoices == {Given(<<>>), Given(<<"1">>)}
\* values of --count, as the strings commander hands over
CountChoices == {"abc", "0", "1", "2"}
\* values of --threads
ThreadChoices == {"abc", "-1", "1", "2"}
\* the workers that can exist
Workers == 1..2
\* private keys Ed25519PrivateKey.generate() can return (one byte each)
Keys == {126, 158}
\* milliseconds that can pass between two readings of Date.now()
ClockSteps == {0, 500, 1000}
\* milliseconds the benchmark loop can take
BenchElapsed == {1000}

(***************************************************************************)
(* JavaScript coercions used by the program.                               *)
(***************************************************************************)
NaN == [isNum |-> FALSE, n |-> 0]
DecimalValue == ("-1" :> -1) @@ ("0" :> 0) @@ ("1" :> 1) @@ ("2" :> 2) @@ ("3" :> 3)

\* ToNumber of a string: the decimal value, NaN for a non-numeric string
ToNumber(s) ==
  IF s \in DOMAIN DecimalValue THEN [isNum |-> TRUE, n |-> DecimalValue[s]] ELSE NaN

\* variant: the comparison is strict
GreaterThan(a, s) == ToNumber(s).isNum /\ a > ToNumber(s).n

\* a >= b with b coerced to a number; every comparison with NaN is false
GreaterOrEqual(a, s) == ToNumber(s).isNum /\ a >= ToNumber(s).n

\* ToLength, as Array.from({ length }) applies it: NaN and negatives give 0
ToLength(s) == IF ToNumber(s).isNum /\ ToNumber(s).n > 0 THEN ToNumber(s).n ELSE 0

\* truthiness of an optional string: undefined and "" are falsy
Truthy(o) == o.given /\ Len(o.val) > 0

\* Math.floor(a / (ms / 1000)); a / 0 is Infinity, 0 / 0 is NaN
FloorRate(a, ms) ==
  IF ms > 0 THEN [kind |-> "number", val |-> (a * 1000) \div ms]
  ELSE IF a > 0 THEN [kind |-> "Infinity", val |-> 0]
  ELSE [kind |-> "NaN", val |-> 0]

(***************************************************************************)
(* Strings and bytes.                                                      *)
(***************************************************************************)
HexDigits == <<"0", "1", "2", "3", "4", "5", "6", "7",
               "8", "9", "a", "b", "c", "d", "e", "f">>

LowercaseHex == {HexDigits[i] : i \in 1..16}

\* Number.prototype.toString(16): minimal lowercase hex digits
RECURSIVE ToString16(_)
ToString16(n) ==
  IF n < 16 THEN <<HexDigits[n + 1]>>
  ELSE ToString16(n \div 16) \o <<HexDigits[(n % 16) + 1]>>

\* String.prototype.padStart(len, ch)
RECURSIVE PadStart(_, _, _)
PadStart(s, len, ch) == IF Len(s) >= len THEN s ELSE PadStart(<<ch>> \o s, len, ch)

\* variant: String.prototype.includes in the place of startsWith
StringIncludes(s, p) ==
  \E i \in 0..(Len(s) - Len(p)) : SubSeq(s, i + 1, i + Len(p)) = p

\* String.prototype.startsWith
StartsWith(s, p) == Len(p) <= Len(s) /\ SubSeq(s, 1, Len(p)) = p

\* String.prototype.endsWith
EndsWith(s, p) == Len(p) <= Len(s) /\ SubSeq(s, Len(s) - Len(p) + 1, Len(s)) = p

\* value of one hex digit
HexValue(c) == (CHOOSE i \in 1..16 : HexDigits[i] = c) - 1

\* variant: a string with an odd number of digits is read with a leading 0
RECURSIVE BufferFromHexPadded(_)
BufferFromHexPadded(s) ==
  IF s = <<>> \/ \E i \in 1..Len(s) : s[i] \notin LowercaseHex THEN <<>>
  ELSE IF Len(s) % 2 = 1 THEN BufferFromHexPadded(<<"0">> \o s)
  ELSE <<HexValue(s[1]) * 16 + HexValue(s[2])>> \o BufferFromHexPadded(SubSeq(s, 3, Len(s)))

\* Buffer.from(s, 'hex'): one byte per complete pair of hex digits
RECURSIVE BufferFromHex(_)
BufferFromHex(s) ==
  IF Len(s) < 2 \/ s[1] \notin LowercaseHex \/ s[2] \notin LowercaseHex THEN <<>>
  ELSE <<HexValue(s[1]) * 16 + HexValue(s[2])>> \o BufferFromHex(SubSeq(s, 3, Len(s)))

\* bytes.map(b => b.toString(16).padStart(2, '0')).join('')
RECURSIVE bytesToHex(_)
bytesToHex(bytes) ==
  IF bytes = <<>> THEN <<>>
  ELSE PadStart(ToString16(Head(bytes)), 2, "0") \o bytesToHex(Tail(bytes))

(***************************************************************************)
(* Library stand-ins.                                                      *)
(***************************************************************************)
\* createHash('sha3-256').update(x).digest(): a fixed function of the bytes
RECURSIVE Absorb(_, _, _)
Absorb(acc, bytes, i) ==
  IF i > Len(bytes) THEN acc
  ELSE Absorb((acc * 31 + bytes[i] + 7) % 256, bytes, i + 1)

Sha3Digest(bytes) == <<Absorb(1, bytes, 1)>>

\* privateKey.toUint8Array()
PrivateKeyBytes(k) == <<k>>

\* privateKey.publicKey().toUint8Array()
PublicKeyBytes(k) == <<(k * 5 + 1) % 256>>

\* Buffer.from('aptos_framework::multisig_account')
MultisigSeed ==
  <<97, 112, 116, 111, 115, 95, 102, 114, 97, 109, 101, 119, 111, 114, 107,
    58, 58, 109, 117, 108, 116, 105, 115, 105, 103, 95, 97, 99, 99, 111,
    117, 110, 116>>

(***************************************************************************)
(* Address derivation.                                                     *)
(***************************************************************************)
authKeyBytesVec(k) == Sha3Digest(PublicKeyBytes(k) \o <<0>>)

\* `combined` of createMultisigAccountAddress, lines 61-63
MultisigCombined(creator, creatorNonce) ==
  LET seed == MultisigSeed
      nonceBytes == BufferFromHex(ToString16(creatorNonce))
  IN  creator \o seed \o nonceBytes \o <<255>>

createMultisigAccountAddress(creator, creatorNonce) ==
  Sha3Digest(MultisigCombined(creator, creatorNonce))

(***************************************************************************)
(* Estimation.                                                             *)
(***************************************************************************)
RECURSIVE Pow16(_)
Pow16(n) == IF n = 0 THEN 1 ELSE 16 * Pow16(n - 1)

CeilDiv(a, b) == (a + b - 1) \div b

\* Math.ceil(-Math.log(0.05) / probabilityPerTry), -ln(0.05) = 2.995732...
AttemptsNeeded(matchNeeded) == CeilDiv(2995733 * Pow16(matchNeeded), 1000000)

\* Math.floor(iterations / elapsed), elapsed in seconds
benchmarkPerformance(elapsedMs) == (BenchIterations * 1000) \div elapsedMs

\* formatDuration(num / den seconds): the unit chosen and the number shown
\* (tenths for hours and days)
formatDuration(num, den) ==
  IF num * 10 < den THEN [unit |-> "milliseconds", shown |-> (num * 2000 + den) \div (2 * den)]
  ELSE IF num < 60 * den THEN [unit |-> "seconds", shown |-> CeilDiv(num, den)]
  ELSE IF num < 3600 * den THEN [unit |-> "minutes", shown |-> CeilDiv(num, 60 * den)]
  ELSE IF num < 86400 * den THEN [unit |-> "hours", shown |-> (num * 20 + 3600 * den) \div (7200 * den)]
  ELSE [unit |-> "days", shown |-> (num * 20 + 86400 * den) \div (172800 * den)]

\* calculateEstimate(prefix, suffix, threadCount); a NaN or non-positive
\* rate fails every comparison of formatDuration and ends in the last branch
calculateEstimate(prefix, suffix, threads, elapsedMs) ==
  IF ~Truthy(prefix) /\ ~Truthy(suffix) THEN [unit |-> "Should be instant", shown |-> 0]
  ELSE LET matchNeeded == Len(prefix.val) + Len(suffix.val)
           attemptsNeeded == AttemptsNeeded(matchNeeded)
           genPerSecondSingleThread == benchmarkPerformance(elapsedMs)
           threadCount == ToNumber(threads)
       IN  IF threadCount.isNum /\ threadCount.n > 0
           THEN formatDuration(attemptsNeeded, genPerSecondSingleThread * threadCount.n)
           ELSE [unit |-> "days", shown |-> 0]

(***************************************************************************)
(* State.                                                                  *)
(***************************************************************************)
VARIABLES
  args,            \* CliArgs: prefix, suffix, multisig, count, threads
  phase,           \* main thread: "start", "estimate", "spawn", "running", "exited"
  now,             \* last value Date.now() returned
  startTime,       \* main: startTime
  lastUpdateTime,  \* main: lastUpdateTime
  foundCount,      \* main: foundCount
  totalGenerated,  \* main: totalGenerated
  estimate,        \* the estimate printed before the search
  status,          \* per worker: "none", "running", "failed"
  pc,              \* per worker: "count" (line 119) or "gen" (line 125)
  localGenCount,   \* per worker: localGenCount
  chan,            \* per worker: messages posted and not yet handled
  printed,         \* result blocks written to stdout
  displays,        \* throughput lines written to stdout
  finalStats,      \* final statistics written to stdout
  exitCode,        \* argument of process.exit
  benchRuns,       \* history: calls of benchmarkPerformance so far
  posted,          \* history, per worker: postMessage calls so far, by message type
  probe            \* the last application of a pure function to chosen inputs

vars == <<args, phase, now, startTime, lastUpdateTime, foundCount, totalGenerated,
          estimate, status, pc, localGenCount, chan, printed, displays, finalStats,
          exitCode, benchRuns, posted, probe>>

mainVars == <<startTime, lastUpdateTime, foundCount, totalGenerated, estimate,
              printed, displays, finalStats, exitCode, benchRuns>>

workerVars == <<status, pc, localGenCount, chan, posted>>

NoStats == [kind |-> "none", rate |-> [kind |-> "NaN", val |-> 0], elapsedMs |-> 0, total |-> 0]
NoEstimate == [unit |-> "none", shown |-> 0]
NoProbe == [fn |-> "none"]

\* parseArgs(): any combination of the option values
parseArgs ==
  [prefix : PrefixChoices, suffix : SuffixChoices, multisig : BOOLEAN,
   count : CountChoices, threads : ThreadChoices]

Init ==
  /\ args \in parseArgs
  /\ phase = "start"
  /\ now = 0
  /\ startTime = 0
  /\ lastUpdateTime = 0
  /\ foundCount = 0
  /\ totalGenerated = 0
  /\ estimate = NoEstimate
  /\ status = [w \in Workers |-> "none"]
  /\ pc = [w \in Workers |-> "count"]
  /\ localGenCount = [w \in Workers |-> 0]
  /\ chan = [w \in Workers |-> <<>>]
  /\ printed = <<>>
  /\ displays = <<>>
  /\ finalStats = NoStats
  /\ exitCode = -1
  /\ benchRuns = 0
  /\ posted = [w \in Workers |-> [progress |-> 0, result |-> 0]]
  /\ probe = NoProbe

(***************************************************************************)
(* Messages.                                                               *)
(***************************************************************************)
ProgressMessage ==
  [type |-> "progress", count |-> ProgressBatch, address |-> <<>>,
   privateKey |-> <<>>, multisigAddress |-> Undefined]

\* the message m as the n-th one its worker posts: seq is a history field
Stamp(m, n) == [seq |-> n] @@ m

\* parentPort.postMessage(m) in worker w
PostMessage(w, m) ==
  [chan EXCEPT ![w] = Append(@, Stamp(m, posted[w].progress + posted[w].result + 1))]

ResultMessage(address, privateKey, multisig) ==
  [type |-> "result", count |-> 0, address |-> address, privateKey |-> privateKey,
   multisigAddress |-> IF multisig THEN Given(address) ELSE Undefined]

\* variant: the suffix test is missing
PassesPrefixOnly(address, prefix, suffix) ==
  ~(Truthy(prefix) /\ ~StartsWith(address, prefix.val))

\* the two `continue` tests of generateKey
PassesFilter(address, prefix, suffix) ==
  /\ ~(Truthy(prefix) /\ ~StartsWith(address, prefix.val))
  /\ ~(Truthy(suffix) /\ ~EndsWith(address, suffix.val))

\* variant: the search always runs over the standard address
SearchBytesStandard(k, multisig) == authKeyBytesVec(k)

\* searchBytes of generateKey
SearchBytes(k, multisig) ==
  IF multisig
  THEN createMultisigAccountAddress(authKeyBytesVec(k), SEQUENCE_NUMBER_MULTISIG)
  ELSE authKeyBytesVec(k)

\* `address` of generateKey, lines 126-131, for every key pair and both
\* values of the multisig flag
SearchAddress == [multisig \in BOOLEAN, k \in Keys |-> bytesToHex(SearchBytes(k, multisig))]

\* bytesToHex(privateKey.toUint8Array()), line 140
PrivateKeyHex == [k \in Keys |-> bytesToHex(PrivateKeyBytes(k))]

(***************************************************************************)
(* Main thread, up to the spawning of the workers.                         *)
(***************************************************************************)
\* main, lines 151-155
MainStart ==
  /\ phase = "start"
  /\ startTime' = now
  /\ lastUpdateTime' = now
  /\ foundCount' = 0
  /\ totalGenerated' = 0
  /\ phase' = "estimate"
  /\ UNCHANGED <<probe, args, now, estimate, benchRuns, printed, displays, finalStats, exitCode>>
  /\ UNCHANGED workerVars

\* variant: the estimate is computed again while the workers run
PrintEstimateAgain ==
  /\ phase \in {"estimate", "running"}
  /\ \E d \in BenchElapsed :
       /\ estimate' = calculateEstimate(args.prefix, args.suffix, args.threads, d)
       /\ now' = IF Truthy(args.prefix) \/ Truthy(args.suffix) THEN now + d ELSE now
       /\ benchRuns' = IF Truthy(args.prefix) \/ Truthy(args.suffix)
                       THEN benchRuns + 1 ELSE benchRuns
  /\ phase' = IF phase = "estimate" THEN "spawn" ELSE phase
  /\ UNCHANGED <<probe, args, startTime, lastUpdateTime, foundCount, totalGenerated,
                 printed, displays, finalStats, exitCode>>
  /\ UNCHANGED workerVars

\* main, lines 158-160: the benchmark runs only when a prefix or suffix is given
PrintEstimate ==
  /\ phase = "estimate"
  /\ \E d \in BenchElapsed :
       /\ estimate' = calculateEstimate(args.prefix, args.suffix, args.threads, d)
       /\ now' = IF Truthy(args.prefix) \/ Truthy(args.suffix) THEN now + d ELSE now
       /\ benchRuns' = IF Truthy(args.prefix) \/ Truthy(args.suffix)
                       THEN benchRuns + 1 ELSE benchRuns
  /\ phase' = "spawn"
  /\ UNCHANGED <<probe, args, startTime, lastUpdateTime, foundCount, totalGenerated,
                 printed, displays, finalStats, exitCode>>
  /\ UNCHANGED workerVars

\* main, lines 163-208: create the workers and attach the message handlers
SpawnWorkers ==
  /\ phase = "spawn"
  /\ status' = [w \in Workers |-> IF w <= ToLength(args.threads) THEN "running" ELSE "none"]
  /\ phase' = "running"
  /\ UNCHANGED <<probe, args, now, pc, localGenCount, chan, posted>>
  /\ UNCHANGED mainVars

(***************************************************************************)
(* Worker threads: one iteration of the loop of generateKey is two steps,  *)
(* the counting with its progress message, and the generation with its     *)
(* result message.                                                         *)
(***************************************************************************)
CanStep(w) ==
  /\ phase = "running"
  /\ status[w] = "running"
  /\ Len(chan[w]) < MaxChan

\* variant: the multiple of the batch is tested before the increment
CountAttemptTestFirst(w) ==
  /\ CanStep(w)
  /\ pc[w] = "count"
  /\ localGenCount[w] < MaxGen
  /\ localGenCount' = [localGenCount EXCEPT ![w] = @ + 1]
  /\ IF localGenCount[w] % ProgressBatch = 0
     THEN /\ chan' = PostMessage(w, ProgressMessage)
          /\ posted' = [posted EXCEPT ![w].progress = @ + 1]
     ELSE UNCHANGED <<chan, posted>>
  /\ pc' = [pc EXCEPT ![w] = "gen"]
  /\ UNCHANGED <<probe, args, phase, now, status>>
  /\ UNCHANGED mainVars

\* lines 119-123
CountAttempt(w) ==
  /\ CanStep(w)
  /\ pc[w] = "count"
  /\ localGenCount[w] < MaxGen
  /\ localGenCount' = [localGenCount EXCEPT ![w] = @ + 1]
  /\ IF localGenCount'[w] % ProgressBatch = 0
     THEN /\ chan' = PostMessage(w, ProgressMessage)
          /\ posted' = [posted EXCEPT ![w].progress = @ + 1]
     ELSE UNCHANGED <<chan, posted>>
  /\ pc' = [pc EXCEPT ![w] = "gen"]
  /\ UNCHANGED <<probe, args, phase, now, status>>
  /\ UNCHANGED mainVars

\* variant: the loop ends after the first result
GenerateKeyOnce(w, k) ==
  /\ CanStep(w)
  /\ pc[w] = "gen"
  /\ LET address == SearchAddress[args.multisig, k]
     IN  IF PassesFilter(address, args.prefix, args.suffix)
         THEN /\ chan' = PostMessage(w, ResultMessage(address, PrivateKeyHex[k], args.multisig))
              /\ posted' = [posted EXCEPT ![w].result = @ + 1]
              /\ pc' = [pc EXCEPT ![w] = "return"]
         ELSE /\ UNCHANGED <<chan, posted>>
              /\ pc' = [pc EXCEPT ![w] = "count"]
  /\ UNCHANGED <<probe, args, phase, now, status, localGenCount>>
  /\ UNCHANGED mainVars

\* variant: the key posted is any key pair's, not that of this iteration
GenerateKeyAnyKey(w, k) ==
  /\ CanStep(w)
  /\ pc[w] = "gen"
  /\ LET address == SearchAddress[args.multisig, k]
     IN  IF PassesFilter(address, args.prefix, args.suffix)
         THEN /\ \E j \in Keys :
                   chan' = PostMessage(w, ResultMessage(address, PrivateKeyHex[j],
                                                        args.multisig))
              /\ posted' = [posted EXCEPT ![w].result = @ + 1]
         ELSE UNCHANGED <<chan, posted>>
  /\ pc' = [pc EXCEPT ![w] = "count"]
  /\ UNCHANGED <<probe, args, phase, now, status, localGenCount>>
  /\ UNCHANGED mainVars

\* lines 125-142 with the key pair k
GenerateKey(w, k) ==
  /\ CanStep(w)
  /\ pc[w] = "gen"
  /\ LET privateKey == k
         address == SearchAddress[args.multisig, privateKey]
     IN  IF PassesFilter(address, args.prefix, args.suffix)
         THEN /\ chan' = PostMessage(w, ResultMessage(address, PrivateKeyHex[privateKey],
                                                      args.multisig))
              /\ posted' = [posted EXCEPT ![w].result = @ + 1]
         ELSE UNCHANGED <<chan, posted>>
  /\ pc' = [pc EXCEPT ![w] = "count"]
  /\ UNCHANGED <<probe, args, phase, now, status, localGenCount>>
  /\ UNCHANGED mainVars

\* variant: the rejection is not caught and takes the process down
GenerateFailsCrash(w) ==
  /\ CanStep(w)
  /\ pc[w] = "gen"
  /\ status' = [status EXCEPT ![w] = "failed"]
  /\ phase' = "exited"
  /\ exitCode' = 1
  /\ UNCHANGED <<probe, args, now, pc, localGenCount, chan, posted>>
  /\ UNCHANGED <<startTime, lastUpdateTime, foundCount, totalGenerated, estimate,
                 benchRuns, printed, displays, finalStats>>

\* line 125 throws: generateKey() rejects, line 146 logs, the worker is over
GenerateFails(w) ==
  /\ CanStep(w)
  /\ pc[w] = "gen"
  /\ status' = [status EXCEPT ![w] = "failed"]
  /\ UNCHANGED <<probe, args, phase, now, pc, localGenCount, chan, posted>>
  /\ UNCHANGED mainVars

(***************************************************************************)
(* Main thread: the 'message' handler of worker w, lines 175-207.          *)
(***************************************************************************)
\* lines 190-196: the block printed for a result
ResultBlock(message) ==
  [multisigLine |-> IF Truthy(message.multisigAddress)
                    THEN Given(<<"0", "x">> \o message.multisigAddress.val)
                    ELSE Undefined,
   standardLine |-> <<"0", "x">> \o message.address,
   privateKeyLine |-> <<"0", "x">> \o message.privateKey]

\* variant: lastUpdateTime is not advanced after a display
HandleProgressNoStamp(w, d) ==
  LET message == Head(chan[w])
      currentTime == now + d
      elapsedMs == currentTime - startTime
  IN  /\ message.type = "progress"
      /\ totalGenerated' = totalGenerated + message.count
      /\ now' = currentTime
      /\ IF currentTime - lastUpdateTime >= UpdateIntervalMs
         THEN displays' = Append(displays,
                  [time |-> currentTime, genPerSecond |-> FloorRate(totalGenerated', elapsedMs)])
         ELSE UNCHANGED displays
      /\ UNCHANGED <<phase, startTime, lastUpdateTime, foundCount, estimate, benchRuns,
                     printed, finalStats, exitCode>>

\* lines 176-185
HandleProgress(w, d) ==
  LET message == Head(chan[w])
      currentTime == now + d
      elapsedMs == currentTime - startTime
  IN  /\ message.type = "progress"
      /\ totalGenerated' = totalGenerated + message.count
      /\ now' = currentTime
      /\ IF currentTime - lastUpdateTime >= UpdateIntervalMs
         THEN /\ displays' = Append(displays,
                    [time |-> currentTime, genPerSecond |-> FloorRate(totalGenerated', elapsedMs)])
              /\ lastUpdateTime' = currentTime
         ELSE UNCHANGED <<displays, lastUpdateTime>>
      /\ UNCHANGED <<phase, startTime, foundCount, estimate, benchRuns, printed, finalStats,
                     exitCode>>

\* variant: the handler does not end the process
HandleResultNoExit(w, d) ==
  LET message == Head(chan[w])
  IN  /\ message.type = "result"
      /\ d = 0
      /\ foundCount' = foundCount + 1
      /\ printed' = Append(printed, ResultBlock(message))
      /\ UNCHANGED <<now, finalStats, exitCode, phase>>
      /\ UNCHANGED <<startTime, lastUpdateTime, totalGenerated, estimate, benchRuns, displays>>

\* variant: a result is counted twice
HandleResultTwice(w, d) ==
  LET message == Head(chan[w])
      elapsedMs == (now + d) - startTime
  IN  /\ message.type = "result"
      /\ foundCount' = foundCount + 2
      /\ printed' = Append(printed, ResultBlock(message))
      /\ IF GreaterOrEqual(foundCount', args.count)
         THEN /\ now' = now + d
              /\ finalStats' = [kind |-> "final", rate |-> FloorRate(totalGenerated, elapsedMs),
                                elapsedMs |-> elapsedMs, total |-> totalGenerated]
              /\ exitCode' = 0
              /\ phase' = "exited"
         ELSE /\ d = 0
              /\ UNCHANGED <<now, finalStats, exitCode, phase>>
      /\ UNCHANGED <<startTime, lastUpdateTime, totalGenerated, estimate, benchRuns, displays>>

\* lines 186-206
HandleResult(w, d) ==
  LET message == Head(chan[w])
      elapsedMs == (now + d) - startTime
  IN  /\ message.type = "result"
      /\ foundCount' = foundCount + 1
      /\ printed' = Append(printed, ResultBlock(message))
      /\ IF GreaterOrEqual(foundCount', args.count)
         THEN /\ now' = now + d
              /\ finalStats' = [kind |-> "final", rate |-> FloorRate(totalGenerated, elapsedMs),
                                elapsedMs |-> elapsedMs, total |-> totalGenerated]
              /\ exitCode' = 0
              /\ phase' = "exited"
         ELSE /\ d = 0
              /\ UNCHANGED <<now, finalStats, exitCode, phase>>
      /\ UNCHANGED <<startTime, lastUpdateTime, totalGenerated, estimate, benchRuns, displays>>

\* variant: the handler is given the oldest message and the newest is dropped
HandleMessageDropsNewest(w) ==
  /\ phase = "running"
  /\ chan[w] # <<>>
  /\ \E d \in ClockSteps :
       /\ now + d <= MaxTime
       /\ HandleProgress(w, d) \/ HandleResult(w, d)
  /\ chan' = [chan EXCEPT ![w] = SubSeq(@, 1, Len(@) - 1)]
  /\ UNCHANGED <<probe, args, status, pc, localGenCount, posted>>

\* worker.on('message', ...), lines 174-208: the messages of one worker are
\* delivered one at a time, oldest first
HandleMessage(w) ==
  /\ phase = "running"
  /\ chan[w] # <<>>
  /\ \E d \in ClockSteps :
       /\ now + d <= MaxTime
       /\ HandleProgress(w, d) \/ HandleResult(w, d)
  /\ chan' = [chan EXCEPT ![w] = Tail(@)]
  /\ UNCHANGED <<probe, args, status, pc, localGenCount, posted>>

(***************************************************************************)
(* Specification.                                                          *)
(***************************************************************************)
Next ==
  \/ MainStart
  \/ PrintEstimate
  \/ SpawnWorkers
  \/ \E w \in Workers : CountAttempt(w)
  \/ \E w \in Workers, k \in Keys : GenerateKey(w, k)
  \/ \E w \in Workers : GenerateFails(w)
  \/ \E w \in Workers : HandleMessage(w)

Spec == Init /\ [][Next]_vars

\* the same behaviours, restricted to valid configurations, in which the
\* main thread and every worker keep taking the steps they can take and
\* every posted message is eventually handled
LiveInit ==
  /\ Init
  /\ ToLength(args.count) >= 1
  /\ ToLength(args.threads) >= 1
  /\ \A o \in {args.prefix, args.suffix} : \A i \in 1..Len(o.val) : o.val[i] \in LowercaseHex

Fairness ==
  /\ WF_vars(MainStart)
  /\ WF_vars(PrintEstimate)
  /\ WF_vars(SpawnWorkers)
  /\ \A w \in Workers :
       /\ WF_vars(CountAttempt(w))
       /\ WF_vars(\E k \in Keys : GenerateKey(w, k))
       /\ WF_vars(HandleMessage(w))

LiveSpec == LiveInit /\ [][Next]_vars /\ Fairness

(***************************************************************************)
(* The second copy of the program, lines 214-337: no estimate, no counting *)
(* in the workers, no progress messages; every message is a result.        *)
(***************************************************************************)
\* main, lines 296-299
MainStartSecond ==
  /\ phase = "start"
  /\ startTime' = now
  /\ foundCount' = 0
  /\ totalGenerated' = 0
  /\ phase' = "spawn"
  /\ UNCHANGED <<probe, args, now, lastUpdateTime, estimate, benchRuns, printed, displays,
                 finalStats, exitCode>>
  /\ UNCHANGED workerVars

\* lines 269-286 with the key pair k: one iteration of the loop
GenerateKeySecond(w, k) ==
  /\ CanStep(w)
  /\ posted[w].result < MaxGen
  /\ LET privateKey == k
         address == SearchAddress[args.multisig, privateKey]
     IN  IF PassesFilter(address, args.prefix, args.suffix)
         THEN /\ chan' = PostMessage(w, ResultMessage(address, PrivateKeyHex[privateKey],
                                                      args.multisig))
              /\ posted' = [posted EXCEPT ![w].result = @ + 1]
         ELSE UNCHANGED <<chan, posted>>
  /\ UNCHANGED <<probe, args, phase, now, status, pc, localGenCount>>
  /\ UNCHANGED mainVars

\* line 269 throws: generateKey() rejects, line 290 logs, the worker is over
GenerateFailsSecond(w) ==
  /\ CanStep(w)
  /\ status' = [status EXCEPT ![w] = "failed"]
  /\ UNCHANGED <<probe, args, phase, now, pc, localGenCount, chan, posted>>
  /\ UNCHANGED mainVars

\* the 'message' handler of worker w, lines 314-331
HandleMessageSecond(w) ==
  /\ phase = "running"
  /\ chan[w] # <<>>
  /\ totalGenerated' = totalGenerated + 1
  /\ foundCount' = foundCount + 1
  /\ printed' = Append(printed, ResultBlock(Head(chan[w])))
  /\ IF GreaterOrEqual(foundCount', args.count)
     THEN /\ \E d \in ClockSteps : now + d <= MaxTime /\ now' = now + d
          /\ finalStats' = [kind |-> "final", elapsedMs |-> now' - startTime,
                            total |-> totalGenerated']
          /\ exitCode' = 0
          /\ phase' = "exited"
     ELSE UNCHANGED <<now, finalStats, exitCode, phase>>
  /\ chan' = [chan EXCEPT ![w] = Tail(@)]
  /\ UNCHANGED <<probe, args, status, pc, localGenCount, posted>>
  /\ UNCHANGED <<startTime, lastUpdateTime, estimate, benchRuns, displays>>

SecondNext ==
  \/ MainStartSecond
  \/ SpawnWorkers
  \/ \E w \in Workers, k \in Keys : GenerateKeySecond(w, k)
  \/ \E w \in Workers : GenerateFailsSecond(w)
  \/ \E w \in Workers : HandleMessageSecond(w)

SecondSpec == Init /\ [][SecondNext]_vars

\* number of key pairs Ed25519PrivateKey.generate() has returned in worker w:
\* the attempt counted at line 119 has its key pair only after line 125
KeysGenerated(w) == localGenCount[w] - (IF pc[w] = "gen" THEN 1 ELSE 0)

(***************************************************************************)
(* The match test of generateKey on its own: lines 134-135 applied to any  *)
(* address, prefix and suffix over a small hex alphabet.                   *)
(***************************************************************************)
MatchAlphabet == {"0", "1", "a"}

\* the strings over MatchAlphabet of length at most n
RECURSIVE StringsUpTo(_)
StringsUpTo(n) ==
  IF n = 0 THEN {<<>>}
  ELSE StringsUpTo(n - 1)
         \cup {Append(s, c) : s \in {t \in StringsUpTo(n - 1) : Len(t) = n - 1},
                              c \in MatchAlphabet}

MatchStrings == StringsUpTo(MaxStrLen)
MatchOptions == {Undefined} \cup {Given(s) : s \in MatchStrings}

\* one configuration for the runs in which only a pure function is applied
PureInit ==
  /\ Init
  /\ args = [prefix |-> Undefined, suffix |-> Given(<<>>), multisig |-> FALSE,
             count |-> "1", threads |-> "1"]

\* lines 134-135 for one address: TRUE when neither `continue` is taken
ApplyFilter ==
  /\ phase = "start"
  /\ probe = NoProbe
  /\ \E address \in MatchStrings, prefix \in MatchOptions, suffix \in MatchOptions :
       probe' = [fn |-> "PassesFilter", address |-> address, prefix |-> prefix,
                 suffix |-> suffix, accepted |-> PassesFilter(address, prefix, suffix)]
  /\ UNCHANGED <<args, phase, now>>
  /\ UNCHANGED mainVars
  /\ UNCHANGED workerVars

MatchNext == ApplyFilter

MatchSpec == PureInit /\ [][MatchNext]_vars

(***************************************************************************)
(* createMultisigAccountAddress on its own, lines 60-65, applied to any    *)
(* creator address over a few byte values.                                 *)
(***************************************************************************)
CreatorBytes == {0, 1, 97, 255}

\* the byte sequences over CreatorBytes of length at most n
RECURSIVE BytesUpTo(_)
BytesUpTo(n) ==
  IF n = 0 THEN {<<>>}
  ELSE BytesUpTo(n - 1)
         \cup {Append(s, b) : s \in {t \in BytesUpTo(n - 1) : Len(t) = n - 1},
                              b \in CreatorBytes}

CreatorChoices == BytesUpTo(MaxCreatorLen)

\* the nonce the program passes, and one with two hex digits
NonceChoices == {SEQUENCE_NUMBER_MULTISIG, 16}

ApplyCreateMultisig ==
  /\ phase = "start"
  /\ probe = NoProbe
  /\ \E creator \in CreatorChoices, creatorNonce \in NonceChoices :
       probe' = [fn |-> "createMultisigAccountAddress", creator |-> creator,
                 creatorNonce |-> creatorNonce,
                 combined |-> MultisigCombined(creator, creatorNonce),
                 address |-> createMultisigAccountAddress(creator, creatorNonce)]
  /\ UNCHANGED <<args, phase, now>>
  /\ UNCHANGED mainVars
  /\ UNCHANGED workerVars

DeriveNext == ApplyCreateMultisig

DeriveSpec == PureInit /\ [][DeriveNext]_vars

(***************************************************************************)
(* Vocabulary of the properties.                                           *)
(***************************************************************************)
TargetCount == ToNumber(args.count).n
ThreadCount == ToNumber(args.threads).n

\* count and threads are numbers >= 1
ValidCounts ==
  /\ ToNumber(args.count).isNum /\ TargetCount >= 1
  /\ ToNumber(args.threads).isNum /\ ThreadCount >= 1

IsLowercaseHex(o) == \A i \in 1..Len(o.val) : o.val[i] \in LowercaseHex

ValidConfig == ValidCounts /\ IsLowercaseHex(args.prefix) /\ IsLowercaseHex(args.suffix)

\* the configured predicate, stated position by position
SatisfiesPredicate(address) ==
  /\ (args.prefix.given /\ args.prefix.val # <<>>) =>
       /\ Len(args.prefix.val) <= Len(address)
       /\ \A i \in 1..Len(args.prefix.val) : address[i] = args.prefix.val[i]
  /\ (args.suffix.given /\ args.suffix.val # <<>>) =>
       /\ Len(args.suffix.val) <= Len(address)
       /\ \A i \in 1..Len(args.suffix.val) :
            address[Len(address) - Len(args.suffix.val) + i] = args.suffix.val[i]

\* the messages of one type worker w has posted and main has not handled
InFlight(w, type) == Cardinality({i \in 1..Len(chan[w]) : chan[w][i].type = type})

\* the messages of one type main has handled: those posted and no longer in flight
RECURSIVE HandledOf(_, _)
HandledOf(ws, type) ==
  IF ws = {} THEN 0
  ELSE LET w == CHOOSE x \in ws : TRUE
       IN  posted[w][type] - InFlight(w, type) + HandledOf(ws \ {w}, type)

\* the step is the handling of the message at the head of worker w's queue
Handles(w) == Len(chan'[w]) < Len(chan[w])

\* the result messages posted and not yet handled
ResultsInFlight ==
  {m \in UNION {{chan[w][i] : i \in 1..Len(chan[w])} : w \in Workers} : m.type = "result"}

C2_NoResultAfterTarget ==
  /\ [](ValidCounts =>
          /\ Len(printed) <= TargetCount
          /\ (Len(printed) = TargetCount => phase = "exited"))
  /\ [][phase = "exited" => UNCHANGED <<printed, foundCount, chan, phase>>]_vars

\* the process is over while a result of another worker is still in flight
C2_Witness ==
  /\ ValidCounts
  /\ phase = "exited"
  /\ Len(printed) = TargetCount
  /\ ResultsInFlight # {}

(***************************************************************************)
(* C3: the address of every result message a worker posts starts with the  *)
(* configured prefix and ends with the configured suffix, whenever these   *)
(* are given and not empty.                                                *)
(***************************************************************************)
C3_ResultSatisfiesPredicate ==
  \A m \in ResultsInFlight : SatisfiesPredicate(m.address)

\* a result is in flight under a prefix and a suffix
C3_Witness ==
  /\ Truthy(args.prefix)
  /\ Truthy(args.suffix)
  /\ ResultsInFlight # {}

(***************************************************************************)
(* C4: under a valid configuration, with the main thread and the workers   *)
(* taking their steps and messages being handled, the search ends at the   *)
(* target: eventually the process has exited with exactly the target count *)
(* of printed results, each matching the predicate; the only other outcome *)
(* is that every worker has failed or used up its MaxGen iterations and    *)
(* every message has been handled without the target being reached.        *)
(***************************************************************************)
SearchKeyLine(block) ==
  IF block.multisigLine.given THEN block.multisigLine.val ELSE block.standardLine

Completed ==
  /\ phase = "exited"
  /\ exitCode = 0
  /\ foundCount = TargetCount
  /\ Len(printed) = TargetCount
  /\ \A i \in 1..Len(printed) :
       /\ SubSeq(SearchKeyLine(printed[i]), 1, 2) = <<"0", "x">>
       /\ SatisfiesPredicate(SubSeq(SearchKeyLine(printed[i]), 3, Len(SearchKeyLine(printed[i]))))

Starved ==
  /\ phase = "running"
  /\ foundCount < TargetCount
  /\ \A w \in Workers :
       /\ chan[w] = <<>>
       /\ \/ status[w] # "running"
          \/ localGenCount[w] = MaxGen /\ pc[w] = "count"

C4_SearchTerminates == <>(Completed \/ Starved)

\* one worker has delivered both results of a search for two addresses
C4_Witness ==
  /\ args.threads = "1"
  /\ args.count = "2"
  /\ Truthy(args.prefix)
  /\ Completed

(***************************************************************************)
(* C5: under --multisig every printed block shows the standard address of  *)
(* the reported key pair on the "Standard account address" line and the    *)
(* multisig address derived from it on the "Multisig account address"      *)
(* line.                                                                   *)
(***************************************************************************)
KeyOfLine(line) == CHOOSE k \in Keys : <<"0", "x">> \o bytesToHex(PrivateKeyBytes(k)) = line

C5_StandardAddressReported ==
  args.multisig =>
    \A i \in 1..Len(printed) :
      LET k == KeyOfLine(printed[i].privateKeyLine)
          standard == authKeyBytesVec(k)
      IN  /\ printed[i].standardLine = <<"0", "x">> \o bytesToHex(standard)
          /\ printed[i].multisigLine =
               Given(<<"0", "x">> \o bytesToHex(createMultisigAccountAddress(standard, 0)))

(***************************************************************************)
(* C6: under --multisig the multisigAddress of every posted result is the  *)
(* hex rendering of the multisig address, with nonce 0, of the standard    *)
(* address of the key pair whose private key the result carries, and that  *)
(* multisig address satisfies the configured predicate.                    *)
(***************************************************************************)
C6_MultisigAddressDerived ==
  args.multisig =>
    \A m \in ResultsInFlight :
      \E k \in Keys :
        /\ m.privateKey = bytesToHex(PrivateKeyBytes(k))
        /\ m.multisigAddress =
             Given(bytesToHex(createMultisigAccountAddress(authKeyBytesVec(k), 0)))
        /\ SatisfiesPredicate(m.multisigAddress.val)
        /\ bytesToHex(authKeyBytesVec(k)) # m.multisigAddress.val

\* a multisig result is in flight under a prefix
C6_Witness ==
  /\ args.multisig
  /\ Truthy(args.prefix)
  /\ ResultsInFlight # {}

(***************************************************************************)
(* C7: under a configuration whose count or threads is not a number >= 1   *)
(* or whose prefix or suffix is not lowercase hex, no worker is spawned    *)
(* and no search step is taken.                                            *)
(***************************************************************************)
C7_BadConfigNeverSearches ==
  ~ValidConfig =>
    /\ phase \in {"start", "estimate", "spawn"}
    /\ \A w \in Workers : status[w] = "none" /\ localGenCount[w] = 0

(***************************************************************************)
(* C8: a worker that has failed stays failed and posts nothing more, no    *)
(* worker starts running after the spawn, and the step in which a worker   *)
(* fails changes neither the counters nor the phase of the main thread nor *)
(* any other worker.                                                       *)
(***************************************************************************)
C8_FailureIsolated ==
  [][\A w \in Workers :
       /\ status[w] = "failed" =>
            /\ status'[w] = "failed"
            /\ Len(chan'[w]) <= Len(chan[w])
            /\ localGenCount'[w] = localGenCount[w]
       /\ (status'[w] = "running" /\ phase # "spawn") => status[w] = "running"
       /\ (status[w] = "running" /\ status'[w] = "failed") =>
            /\ UNCHANGED <<foundCount, totalGenerated, phase, exitCode, chan, printed>>
            /\ \A v \in Workers \ {w} : status'[v] = status[v]
    ]_vars

\* the search reached its target although a worker had failed
C8_Witness ==
  /\ ValidCounts
  /\ phase = "exited"
  /\ exitCode = 0
  /\ foundCount = TargetCount
  /\ \E w \in Workers : status[w] = "failed"
  /\ \E w \in Workers : status[w] = "running"

(***************************************************************************)
(* C9: totalGenerated never exceeds the number of key pairs the workers    *)
(* have generated so far.                                                  *)
(***************************************************************************)
RECURSIVE SumKeysGenerated(_)
SumKeysGenerated(ws) ==
  IF ws = {} THEN 0
  ELSE LET w == CHOOSE x \in ws : TRUE
       IN  KeysGenerated(w) + SumKeysGenerated(ws \ {w})

C9_TotalIsLowerBound == totalGenerated <= SumKeysGenerated(Workers)

(***************************************************************************)
(* C10: every throughput line is displayed at least 1000 ms after the      *)
(* start and at least 1000 ms after the previous one, and a progress       *)
(* message handled less than 1000 ms after the previous display adds its   *)
(* count to totalGenerated and displays nothing.                           *)
(***************************************************************************)
C10_DisplayAtMostOncePerSecond ==
  /\ [](\A i \in 1..Len(displays) :
          /\ displays[i].time - startTime >= 1000
          /\ i > 1 => displays[i].time - displays[i - 1].time >= 1000)
  /\ [][(totalGenerated' # totalGenerated /\ displays # <<>>
           /\ now' - displays[Len(displays)].time < 1000) =>
          /\ displays' = displays
          /\ totalGenerated' = totalGenerated + ProgressBatch]_vars

\* two throughput lines have been displayed
C10_Witness == Len(displays) >= 2

(***************************************************************************)
(* C11: for every address, prefix and suffix over the alphabet, the match  *)
(* test accepts the address exactly when the prefix is absent, empty or    *)
(* equal to the first characters of the address, and the suffix is absent, *)
(* empty or equal to its last characters; with neither given every address *)
(* is accepted.                                                            *)
(***************************************************************************)
\* p is absent or empty, or its characters are those of s from position off + 1
AbsentOrAt(s, p, fromEnd) ==
  \/ ~p.given
  \/ p.val = <<>>
  \/ /\ Len(p.val) <= Len(s)
     /\ \A i \in 1..Len(p.val) :
          s[(IF fromEnd THEN Len(s) - Len(p.val) ELSE 0) + i] = p.val[i]

C11_MatchEqualsReference ==
  probe.fn = "PassesFilter" =>
    /\ probe.accepted <=> /\ AbsentOrAt(probe.address, probe.prefix, FALSE)
                          /\ AbsentOrAt(probe.address, probe.suffix, TRUE)
    /\ (~probe.prefix.given /\ ~probe.suffix.given) => probe.accepted

\* an address that holds the prefix, but not at its start, is rejected
C11_Witness ==
  /\ probe.fn = "PassesFilter"
  /\ probe.address = <<"0", "a">>
  /\ probe.prefix = Given(<<"a">>)
  /\ probe.suffix = Given(<<>>)
  /\ ~probe.accepted

(***************************************************************************)
(* C12: the progress messages a worker has posted number                   *)
(* floor(localGenCount / batch), each carrying the batch as its count;     *)
(* localGenCount grows by one in the counting step of every iteration and  *)
(* in no other step, so an iteration whose key matches is counted once,    *)
(* like any other, and a progress message is posted exactly in the step    *)
(* that brings localGenCount to a multiple of the batch.                   *)
(***************************************************************************)
C12_ProgressEveryBatch ==
  /\ [](\A w \in Workers :
          /\ posted[w].progress = localGenCount[w] \div ProgressBatch
          /\ \A i \in 1..Len(chan[w]) :
               chan[w][i].type = "progress" => chan[w][i].count = ProgressBatch)
  /\ [][\A w \in Workers :
          /\ localGenCount'[w] = localGenCount[w] + 1
                <=> (pc[w] = "count" /\ pc'[w] = "gen")
          /\ localGenCount'[w] # localGenCount[w] + 1 => localGenCount'[w] = localGenCount[w]
          /\ posted'[w].result # posted[w].result => localGenCount'[w] = localGenCount[w]
          /\ posted'[w].progress # posted[w].progress
                <=> (localGenCount'[w] # localGenCount[w]
                       /\ localGenCount'[w] % ProgressBatch = 0)
     ]_vars

\* a worker posted a result in each of its first two iterations and the
\* progress message of the second one
C12_Witness ==
  \E w \in Workers :
    /\ localGenCount[w] = ProgressBatch
    /\ posted[w].result = 2
    /\ posted[w].progress = 1

(***************************************************************************)
(* C13: the handling of a progress message adds the count it carries to    *)
(* totalGenerated and leaves foundCount alone; the handling of a result    *)
(* message adds one to foundCount and leaves totalGenerated alone; no      *)
(* other step, of a worker or of main, changes either counter.  So         *)
(* totalGenerated is the batch times the progress messages handled and     *)
(* foundCount is the number of result messages handled.                    *)
(***************************************************************************)
C13_CountersFrame ==
  /\ [][/\ \A w \in Workers :
            /\ (Handles(w) /\ Head(chan[w]).type = "progress") =>
                 /\ totalGenerated' = totalGenerated + Head(chan[w]).count
                 /\ foundCount' = foundCount
            /\ (Handles(w) /\ Head(chan[w]).type = "result") =>
                 /\ foundCount' = foundCount + 1
                 /\ totalGenerated' = totalGenerated
        /\ (\A w \in Workers : ~Handles(w)) => UNCHANGED <<totalGenerated, foundCount>>
     ]_vars
  /\ [](/\ totalGenerated = ProgressBatch * HandledOf(Workers, "progress")
        /\ foundCount = HandledOf(Workers, "result"))

(***************************************************************************)
(* C14: the messages of one worker are handled in the order the worker     *)
(* posted them: its queue always holds the messages it posted last, in     *)
(* posting order, and every handling takes the oldest of them; a result    *)
(* posted after a progress message is therefore never handled before it.   *)
(* Between workers there is no order: while the search runs, the oldest    *)
(* message of any worker with a message in flight may be the next handled. *)
(***************************************************************************)
PostedBy(w) == posted[w].progress + posted[w].result

C15_BenchmarkBeforeWorkers ==
  /\ [](/\ benchRuns <= 1
        /\ phase \in {"start", "estimate", "spawn"} =>
             \A w \in Workers :
               status[w] = "none" /\ localGenCount[w] = 0 /\ PostedBy(w) = 0
        /\ phase \in {"spawn", "running", "exited"} =>
             /\ estimate # NoEstimate
             /\ benchRuns = IF Truthy(args.prefix) \/ Truthy(args.suffix) THEN 1 ELSE 0)
  /\ [][(benchRuns' # benchRuns \/ estimate' # estimate) =>
          /\ phase = "estimate"
          /\ \A w \in Workers : status[w] = "none" /\ status'[w] = "none"
          /\ UNCHANGED <<localGenCount, chan, posted>>
     ]_vars

\* the workers search and post after the one benchmark
C15_Witness ==
  /\ phase = "running"
  /\ benchRuns = 1
  /\ estimate.unit \notin {"none", "Should be instant"}
  /\ \E w \in Workers : localGenCount[w] >= 2 /\ PostedBy(w) >= 1

(***************************************************************************)
(* C16: for every creator address and the nonce 0 the bytes hashed are the *)
(* creator address, the 33 bytes of "aptos_framework::multisig_account",   *)
(* no byte for the nonce, and the byte 0xFF, in this order, and the        *)
(* address returned is the digest of these bytes, unchanged.  (A nonce of  *)
(* two hex digits contributes its one byte between the seed and 0xFF.)     *)
(***************************************************************************)
C16_MultisigPreimage ==
  probe.fn = "createMultisigAccountAddress" =>
    LET n == Len(probe.creator)
        nonce == IF probe.creatorNonce = 0 THEN <<>> ELSE <<probe.creatorNonce>>
    IN  /\ Len(probe.combined) = n + 33 + Len(nonce) + 1
        /\ SubSeq(probe.combined, 1, n) = probe.creator
        /\ SubSeq(probe.combined, n + 1, n + 33) = MultisigSeed
        /\ SubSeq(probe.combined, n + 34, n + 33 + Len(nonce)) = nonce
        /\ probe.combined[Len(probe.combined)] = 255
        /\ probe.address = Sha3Digest(probe.creator \o MultisigSeed \o nonce \o <<255>>)

\* the address of a creator under the nonce 0
C16_Witness ==
  /\ probe.fn = "createMultisigAccountAddress"
  /\ probe.creator = <<255, 0>>
  /\ probe.creatorNonce = 0
  /\ Len(probe.combined) = 36

(***************************************************************************)
(* C17: every result message in flight and every printed block pairs an    *)
(* address with the private key it was derived from: for some key pair,    *)
(* the private key reported is that pair's and the address reported is the *)
(* address searched for that pair.  Different key pairs have different     *)
(* addresses, so the private key of another iteration or of another worker *)
(* would break the pairing.                                                *)
(***************************************************************************)
\* the hex address the search derives from the key pair k
AddressOfKey(k) == SearchAddress[args.multisig, k]

C17_KeyMatchesAddress ==
  /\ \A j \in Keys, k \in Keys : j # k => AddressOfKey(j) # AddressOfKey(k)
  /\ \A m \in ResultsInFlight :
       \E k \in Keys :
         /\ m.privateKey = PrivateKeyHex[k]
         /\ m.address = AddressOfKey(k)
  /\ \A i \in 1..Len(printed) :
       \E k \in Keys :
         /\ printed[i].privateKeyLine = <<"0", "x">> \o PrivateKeyHex[k]
         /\ SearchKeyLine(printed[i]) = <<"0", "x">> \o AddressOfKey(k)

\* results of both key pairs have been printed and another is in flight
C17_Witness ==
  /\ Len(printed) = 2
  /\ printed[1].privateKeyLine # printed[2].privateKeyLine
  /\ ResultsInFlight # {}

(***************************************************************************)
(* C18: until the process is terminated, foundCount plus the result        *)
(* messages posted and not yet handled is the number of result messages    *)
(* the workers have posted: no result is counted that no worker posted,    *)
(* and none is counted twice.                                              *)
(***************************************************************************)
RECURSIVE ResultsPosted(_)
ResultsPosted(ws) ==
  IF ws = {} THEN 0
  ELSE LET w == CHOOSE x \in ws : TRUE
       IN  posted[w].result + ResultsPosted(ws \ {w})

RECURSIVE ResultsPending(_)
ResultsPending(ws) ==
  IF ws = {} THEN 0
  ELSE LET w == CHOOSE x \in ws : TRUE
       IN  InFlight(w, "result") + ResultsPending(ws \ {w})

C18_ResultsConserved ==
  phase # "exited" =>
    /\ foundCount + ResultsPending(Workers) = ResultsPosted(Workers)
    /\ foundCount <= ResultsPosted(Workers)

\* one result has been counted while both workers have a result in flight
C18_Witness ==
  /\ phase = "running"
  /\ foundCount = 1
  /\ \A w \in Workers : InFlight(w, "result") >= 1
  /\ ResultsPosted(Workers) >= 3

(***************************************************************************)
(* C19: every throughput figure is computed over a strictly positive       *)
(* elapsed time: each throughput line displayed and the final statistics   *)
(* divide totalGenerated by a time since startTime that is greater than 0, *)
(* so the figure is a number.                                              *)
(***************************************************************************)
C19_ElapsedPositive ==
  /\ \A i \in 1..Len(displays) :
       /\ displays[i].time - startTime > 0
       /\ displays[i].genPerSecond.kind = "number"
  /\ finalStats.kind = "final" =>
       /\ finalStats.elapsedMs > 0
       /\ finalStats.rate.kind = "number"

\* the part of C19 about the live display alone
LiveDisplayElapsedPositive ==
  \A i \in 1..Len(displays) :
    displays[i].time - startTime >= UpdateIntervalMs /\ displays[i].genPerSecond.kind = "number"

====
